---------------------------- MODULE Spec2Model ----------------------------
(* pytest-richtrace: the event bus (event.py) and the test execution       *)
(* observer (test_execution_observer.py) with the records it fills         *)
(* (results.py).                                                           *)
EXTENDS Integers, Sequences, FiniteSets, TLC

(***************************************************************************)
(* Bounds of the model.                                                    *)
(***************************************************************************)
\* stored events when the id generator yields fresh ids
MaxEvents == 3
\* registered subscriptions
MaxSubs == 2
\* largest reading of the wall clock
MaxTime == 2
\* item starts, captured exceptions and stage reports delivered in a run
MaxHooks == 4
\* notifications of a collection
MaxCollected == 2

(***************************************************************************)
(* Value domains.                                                          *)
(***************************************************************************)
\* source ids; SOURCE_ID_GENERATOR gives every component its own
RunTestSource == "src-testrun"
ReporterSource == "src-reporter"
Sources == {RunTestSource, ReporterSource}
\* a callback that, when invoked, subscribes a further callback under the
\* source of its own subscription
SubscribeInCallback == "subscribe_in_callback"
\* subscriber callbacks
Funcs == {"event_handler", "call_me", SubscribeInCallback}
\* item ids
Items == {"A", "B"}
\* event names published through the bus API directly
DraftNames == {"class"}
\* the id returned by the constant id generator of the tests
AlwaysTheSame == "always_the_same"
\* the reading of the constant clock of the tests
FixedTime == MaxTime

VARIABLES
    idGen,          \* EventBus._event_id_generator: "uuid1" or "constant"
    clockKind,      \* EventBus._clock: "now" or "fixed"
    now,            \* the wall clock read by CLOCK
    nextId,         \* ids handed out so far by the uuid1 generator
    events,         \* EventBus.events, in insertion order
    subscriptions,  \* EventBus.subscriptions
    notified,       \* callback invocations made by the last operation
    calls,          \* what the publish calls of the last publishing operation
                    \* returned and how often they called the injected functions
    current,        \* TestExecutionObserver._current_execution_node
    stored,         \* current is the object held in nodes[current.nodeid]
    nodes,          \* results.execute.nodes
    passed, failed, skipped, xfailed, xpassed, error,   \* results.execute.*
    count,          \* results.execute.count
    hooks,          \* item starts, captured exceptions and stage reports so far
    extraAttrs,     \* what the record class does with an undeclared attribute
    raised,         \* exception raised by the last operation, or "none"
    collect_count,  \* results.collect.count
    collect_error,  \* results.collect.error: module path -> exception
    collect_skip,   \* results.collect.skip: item id -> list of SkipInfo
    collect_xfail,  \* results.collect.xfail: item id -> list of XfailInfo
    queue,          \* notifications the engine has still to deliver in a session
    run_start, run_stop,                    \* results.start, results.stop
    run_precise_start, run_precise_stop,    \* results.precise_start, .precise_stop
    execute_stop, execute_precise_stop,     \* results.execute.stop, .precise_stop
    perf,           \* the reading of time.perf_counter()
    answer          \* what the last call of a duration accessor gave

busVars == <<idGen, clockKind, now, nextId, events, subscriptions, notified,
             calls>>
obsVars == <<current, stored, nodes, passed, failed, skipped, xfailed, xpassed,
             error, count, hooks, extraAttrs, raised>>
colVars == <<collect_count, collect_error, collect_skip, collect_xfail>>
runVars == <<run_start, run_stop, run_precise_start, run_precise_stop,
             execute_stop, execute_precise_stop, perf, answer>>
vars == <<busVars, obsVars, colVars, queue, runVars>>

(***************************************************************************)
(* event.py: Event, EventBus                                               *)
(***************************************************************************)
\* mutant of NewEvent: the item id of the draft is not copied
NewEventNoItem(id, t, draft) ==
    [id |-> id, source |-> draft.source, time |-> t, name |-> draft.name,
     item_id |-> "None", payload |-> draft.payload]

\* mutant of NewEvent: the clock value is not put in the event
NewEventNoTime(id, t, draft) ==
    [id |-> id, source |-> draft.source, time |-> 0 - 1, name |-> draft.name,
     item_id |-> draft.item_id, payload |-> draft.payload]

\* Event(event_info): the stored event built by publish from the draft
NewEvent(id, t, draft) ==
    [id |-> id, source |-> draft.source, time |-> t, name |-> draft.name,
     item_id |-> draft.item_id, payload |-> draft.payload]

\* self._event_id_generator() for the k-th publish of one operation (k = 0, 1)
GenId(k) == IF idGen = "uuid1" THEN ToString(nextId + k) ELSE AlwaysTheSame

\* self._clock()
Clock == IF clockKind = "now" THEN now ELSE FixedTime

\* self.events[event_id] = new_event: a dict, so an id already present keeps
\* its position and gets the new value
StoreEvent(evs, e) ==
    IF \E i \in 1..Len(evs) : evs[i].id = e.id
    THEN [i \in 1..Len(evs) |-> IF evs[i].id = e.id THEN e ELSE evs[i]]
    ELSE Append(evs, e)

\* mutant of Notify: every subscription is invoked
NotifyAll(subs, e) ==
    [i \in 1..Len(subs) |-> [sub |-> i, func |-> subs[i].func, event |-> e]]

\* subscription.func(event) for the k-th subscription: what the callback
\* does to the subscription list
Callback(subs, k) ==
    IF subs[k].func = SubscribeInCallback
    THEN Append(subs, [source |-> subs[k].source, func |-> "call_me"])
    ELSE subs

\* the loop of _notify from the k-th subscription on: it runs over the list
\* itself, so a subscription appended by a callback is reached by the loop
RECURSIVE NotifyFrom(_, _, _)
NotifyFrom(subs, k, e) ==
    IF k > Len(subs) THEN [subscriptions |-> subs, notified |-> <<>>]
    ELSE IF subs[k].source = e.source THEN NotifyFrom(subs, k + 1, e)
    ELSE LET rest == NotifyFrom(Callback(subs, k), k + 1, e)
         IN [subscriptions |-> rest.subscriptions,
             notified |-> <<[sub |-> k, func |-> subs[k].func, event |-> e]>>
                          \o rest.notified]

\* mutant of Notify: the loop ends after the first invocation
NotifyFirstOnly(subs, e) ==
    LET all == NotifyFrom(subs, 1, e).notified
    IN IF all = <<>> THEN <<>> ELSE <<Head(all)>>

\* _notify: the invocations made for event e, in subscription order
Notify(subs, e) == NotifyFrom(subs, 1, e).notified

\* the subscription list after _notify
NotifySubs(subs, e) == NotifyFrom(subs, 1, e).subscriptions

\* get_with_id: the stored events with that id (none or one)
get_with_id(id) == SelectSeq(events, LAMBDA e : e.id = id)

\* get_from_source
get_from_source(S) == SelectSeq(events, LAMBDA e : e.source = S)

\* room for k more publishes
CanPublish(k) == idGen = "uuid1" => nextId + k <= MaxEvents

\* no publish call made yet
NoCalls == [ids |-> <<>>, generator |-> 0, clock |-> 0]

\* the bus after the publishes of the drafts ds (one operation's publishes):
\* each publish calls the id generator and the clock, builds and stores the
\* event, notifies and returns the id
RECURSIVE PublishAll(_, _, _, _)
PublishAll(evs, subs, ds, k) ==
    IF ds = <<>>
    THEN [events |-> evs, subscriptions |-> subs, notified |-> <<>>,
          ids |-> <<>>, generator |-> 0, clock |-> 0]
    ELSE LET event_id == GenId(k)
             event_time == Clock
             e == NewEvent(event_id, event_time, Head(ds))
             rest == PublishAll(StoreEvent(evs, e), NotifySubs(subs, e),
                                Tail(ds), k + 1)
         IN [events |-> rest.events,
             subscriptions |-> rest.subscriptions,
             notified |-> Notify(subs, e) \o rest.notified,
             ids |-> <<event_id>> \o rest.ids,
             generator |-> 1 + rest.generator,
             clock |-> 1 + rest.clock]

\* the effect of an operation that publishes the drafts ds on the bus
BusPublish(ds) ==
    LET r == PublishAll(events, subscriptions, ds, 0)
    IN /\ events' = r.events
       /\ subscriptions' = r.subscriptions
       /\ notified' = r.notified
       /\ calls' = [ids |-> r.ids, generator |-> r.generator, clock |-> r.clock]
       /\ nextId' = IF idGen = "uuid1" THEN nextId + r.generator ELSE nextId
       /\ UNCHANGED <<idGen, clockKind, now>>

\* EventBus.publish(event) called by a client of the bus
Publish(draft) ==
    /\ CanPublish(1)
    /\ BusPublish(<<draft>>)
    /\ Len(subscriptions') <= MaxSubs
    /\ UNCHANGED <<obsVars, colVars, queue, runVars>>

\* EventBus.subscribe(source, func)
Subscribe(S, f) ==
    /\ Len(subscriptions) < MaxSubs
    /\ subscriptions' = Append(subscriptions, [source |-> S, func |-> f])
    /\ notified' = <<>>
    /\ UNCHANGED <<idGen, clockKind, now, nextId, events, calls>>
    /\ UNCHANGED <<obsVars, colVars, queue, runVars>>

\* the wall clock moves between operations
Tick(t) ==
    /\ clockKind = "now"
    /\ t # now
    /\ now' = t
    /\ UNCHANGED <<idGen, clockKind, nextId, events, subscriptions, notified,
                   calls>>
    /\ UNCHANGED <<obsVars, colVars, queue, runVars>>

Drafts ==
    [source : Sources, name : DraftNames, item_id : {"here"}, payload : {"None"}]

InitBus ==
    /\ idGen \in {"uuid1", "constant"}
    /\ clockKind \in {"now", "fixed"}
    /\ now = 0
    /\ nextId = 0
    /\ events = <<>>
    /\ subscriptions = <<>>
    /\ notified = <<>>
    /\ calls = NoCalls

InitObs ==
    /\ current = [nodeid |-> "<unset>"]
    /\ stored = FALSE
    /\ nodes = <<>>
    /\ passed = {} /\ failed = {} /\ skipped = {}
    /\ xfailed = {} /\ xpassed = {} /\ error = {}
    /\ count = 0
    /\ hooks = 0
    /\ extraAttrs \in {"allow", "forbid"}
    /\ raised = "none"

InitCol ==
    /\ collect_count = 0
    /\ collect_error = <<>>
    /\ collect_skip = <<>>
    /\ collect_xfail = <<>>

\* an endpoint of the run that is None
NoTime == 0 - 1

\* TestRunResults(run_id=...): the endpoints of the run with their defaults;
\* no duration accessor called yet
InitRun ==
    /\ run_start = NoTime /\ run_stop = NoTime
    /\ run_precise_start = 0 /\ run_precise_stop = 0
    /\ execute_stop = NoTime /\ execute_precise_stop = 0
    /\ perf = 1
    /\ answer = [of |-> "none"]

BusInit == InitBus /\ InitObs /\ InitCol /\ InitRun /\ queue = <<>>

BusNext ==
    \/ \E d \in Drafts : Publish(d)
    \/ \E S \in Sources, f \in Funcs : Subscribe(S, f)
    \/ \E t \in 0..MaxTime : Tick(t)

\* the event bus driven through its API
SpecBus == BusInit /\ [][BusNext]_vars

(***************************************************************************)
(* results.py: the records                                                 *)
(***************************************************************************)
Stages == {"setup", "call", "teardown"}
Outcomes == {"passed", "failed", "skipped"}
\* exceptions a stage can raise
Exceptions == {"exc1"}

\* TestExecutionResultRecord(): the declared fields with their defaults;
\* extra holds the attributes set on the record that it does not declare
TestExecutionResultRecord ==
    [outcome |-> "", when |-> "", function |-> "", module |-> "",
     line |-> "None", precise_start |-> 0, precise_stop |-> 0,
     xfail |-> FALSE, xdist |-> FALSE, exception |-> "None", extra |-> {}]

\* TestExecutionResultRecord.duration
duration(r) == r.precise_stop - r.precise_start

\* TestExecutionNodeRecord(nodeid=nodeid)
TestExecutionNodeRecord(nodeid) ==
    [nodeid |-> nodeid, stages |-> <<>>, result |-> "unknown"]

\* the observer before the first item-start: no _current_execution_node
NoNode == [nodeid |-> "<unset>"]

\* stages[when] = r on a dict
SetStage(stages, when, r) ==
    [s \in DOMAIN stages \cup {when} |-> IF s = when THEN r ELSE stages[s]]

\* node.stages.get(when, None) is None
Missing(node, when) == when \notin DOMAIN node.stages

(***************************************************************************)
(* test_execution_observer.py: TestExecutionObserver                       *)
(***************************************************************************)
\* EventPublisher.publish(name, item_id, payload) of the observer: the draft
Draft(name, item_id, payload) ==
    [source |-> RunTestSource, name |-> name, item_id |-> item_id,
     payload |-> payload]

\* a mutation of the object _current_execution_node, which is also the value
\* of nodes[nodeid] once logfinish has put it there
SetCurrent(n) ==
    /\ current' = n
    /\ nodes' = IF stored THEN [nodes EXCEPT ![current.nodeid] = n] ELSE nodes

\* nothing of the execution record changes
SetsUnchanged == UNCHANGED <<passed, failed, skipped, xfailed, xpassed, error>>

\* pytest_runtest_logstart(nodeid, location)
LogStart(nodeid) ==
    /\ hooks' = hooks + 1
    /\ count' = count + 1
    /\ current' = TestExecutionNodeRecord(nodeid)
    /\ stored' = FALSE
    /\ BusPublish(<<Draft("test:execute:item:started", nodeid, "location")>>)
    /\ raised' = "none"
    /\ SetsUnchanged
    /\ UNCHANGED <<nodes, extraAttrs, colVars, runVars>>

\* pytest_runtest_makereport(item, call) with call.excinfo holding exc
\* ("None": call.excinfo is None)
MakeReport(when, exc) ==
    /\ hooks' = IF exc # "None" THEN hooks + 1 ELSE hooks
    /\ IF exc = "None"
       THEN raised' = "none" /\ UNCHANGED <<current, nodes>>
       ELSE IF current = NoNode
       THEN raised' = "AttributeError" /\ UNCHANGED <<current, nodes>>
       ELSE /\ raised' = "none"
            /\ IF Missing(current, when)
               THEN SetCurrent([current EXCEPT !.stages =
                        SetStage(@, when,
                            [TestExecutionResultRecord EXCEPT !.exception = exc])])
               ELSE UNCHANGED <<current, nodes>>
    /\ SetsUnchanged
    /\ UNCHANGED <<stored, count, extraAttrs, colVars, runVars>>
    /\ UNCHANGED busVars

\* the event name chosen for a stage report (lines 116-121)
StageEvent(when) ==
    CASE when = "setup" -> "test:execute:item:report"
      [] when = "call" -> "test:execute:item:call"
      [] when = "teardown" -> "test:execute:item:teardown"

\* mutant of ReportHead: the report is recorded in a new result
ReportHeadFresh(r, wasxfail, hasnode, start) ==
    [TestExecutionResultRecord EXCEPT !.xfail = wasxfail, !.xdist = hasnode,
                                      !.precise_start = start]

\* the stage result after lines 95-98 of pytest_runtest_logreport
ReportHead(r, wasxfail, hasnode, start) ==
    [r EXCEPT !.xfail = wasxfail, !.xdist = hasnode, !.precise_start = start]

\* the stage result after lines 99-107: precise_finish is no declared field
ReportTail(r, nodeid, when, outcome, stop) ==
    [r EXCEPT !.extra = {x \in @ : x[1] # "precise_finish"}
                          \cup {<<"precise_finish", stop>>},
              !.when = when, !.outcome = outcome,
              !.module = "module", !.line = "line", !.function = "function"]

\* pytest_runtest_logreport(report).  The assignment of line 99 names a field
\* TestExecutionResultRecord does not declare: a record class that forbids
\* undeclared attributes raises ValueError there, one that allows them keeps
\* the value and goes on.  The engine reports a stage of the item in flight
\* once: a stage whose report was recorded is not reported again.
LogReport(nodeid, when, outcome, wasxfail, start, stop) ==
    /\ IF current = NoNode \/ Missing(current, when) THEN TRUE
       ELSE current.stages[when].when = ""
    /\ hooks' = hooks + 1
    /\ IF current = NoNode
       THEN /\ raised' = "AttributeError"
            /\ UNCHANGED <<current, nodes>>
            /\ UNCHANGED busVars
       ELSE LET r0 == IF Missing(current, when)
                      THEN TestExecutionResultRecord
                      ELSE current.stages[when]
                r1 == ReportHead(r0, wasxfail, FALSE, start)
                r2 == ReportTail(r1, nodeid, when, outcome, stop)
            IN IF extraAttrs = "allow"
               THEN /\ SetCurrent([current EXCEPT !.stages = SetStage(@, when, r2)])
                    /\ BusPublish(<<Draft(StageEvent(when), nodeid, "report"),
                                    Draft("test:execute:item:report", nodeid, "report")>>)
                    /\ raised' = "none"
               ELSE /\ SetCurrent([current EXCEPT !.stages = SetStage(@, when, r1)])
                    /\ raised' = "ValueError"
                    /\ UNCHANGED busVars
    /\ SetsUnchanged
    /\ UNCHANGED <<stored, count, extraAttrs, colVars, runVars>>

\* mutant of AllPassed: the teardown outcome is not looked at
AllPassedNoTeardown(setup, call, teardown) ==
    /\ setup.outcome = "passed"
    /\ call.outcome = "passed"

\* all_passed of _finalize_node (lines 175-181)
AllPassed(setup, call, teardown) ==
    /\ setup.outcome = "passed"
    /\ call.outcome = "passed"
    /\ teardown.outcome = "passed"

\* mutant of DecideNoCall: a skipped setup is recorded without set insertion
DecideNoCallSkipNoSet(setup) ==
    IF setup.outcome = "skipped" THEN [result |-> "skipped", set |-> "none"]
    ELSE IF setup.outcome = "failed" THEN [result |-> "error", set |-> "error"]
    ELSE [result |-> "unknown", set |-> "none"]

\* mutant of DecideNoCall: a failed setup is classified Failed
DecideNoCallFailed(setup) ==
    IF setup.outcome = "skipped" THEN [result |-> "skipped", set |-> "skipped"]
    ELSE IF setup.outcome = "failed" THEN [result |-> "failed", set |-> "failed"]
    ELSE [result |-> "unknown", set |-> "none"]

\* mutant of DecideNoCall: the remaining case is put in the error set
DecideNoCallUnknownAsError(setup) ==
    IF setup.outcome = "skipped" THEN [result |-> "skipped", set |-> "skipped"]
    ELSE IF setup.outcome = "failed" THEN [result |-> "error", set |-> "error"]
    ELSE [result |-> "unknown", set |-> "error"]

\* _finalize_node without a call stage (lines 165-173): result and set
DecideNoCall(setup) ==
    IF setup.outcome = "skipped" THEN [result |-> "skipped", set |-> "skipped"]
    ELSE IF setup.outcome = "failed" THEN [result |-> "error", set |-> "error"]
    ELSE [result |-> "unknown", set |-> "none"]

\* _finalize_node with a call stage marked xfail (lines 183-189)
DecideXfail(all_passed) ==
    IF all_passed THEN [result |-> "xpassed", set |-> "xpassed"]
    ELSE [result |-> "xfailed", set |-> "xfailed"]

\* mutant of DecideCall: the all-passed branch forgets the set insertion
DecideCallPassedNoSet(all_passed, call, old) ==
    IF all_passed THEN [result |-> "passed", set |-> "none"]
    ELSE IF call.outcome = "failed" THEN [result |-> "failed", set |-> "failed"]
    ELSE IF call.outcome = "skipped" THEN [result |-> "skipped", set |-> "none"]
    ELSE [result |-> old, set |-> "none"]

\* mutant of DecideCall: a failed call is put in the error set
DecideCallFailedAsError(all_passed, call, old) ==
    IF all_passed THEN [result |-> "passed", set |-> "passed"]
    ELSE IF call.outcome = "failed" THEN [result |-> "failed", set |-> "error"]
    ELSE IF call.outcome = "skipped" THEN [result |-> "skipped", set |-> "none"]
    ELSE [result |-> old, set |-> "none"]

\* mutant of DecideCall: a skipped call is put in the skipped set
DecideCallSkippedSet(all_passed, call, old) ==
    IF all_passed THEN [result |-> "passed", set |-> "passed"]
    ELSE IF call.outcome = "failed" THEN [result |-> "failed", set |-> "failed"]
    ELSE IF call.outcome = "skipped" THEN [result |-> "skipped", set |-> "skipped"]
    ELSE [result |-> old, set |-> "none"]

\* _finalize_node with a call stage not marked xfail (lines 190-199); old is
\* node.result, which stays when no branch assigns it
DecideCall(all_passed, call, old) ==
    IF all_passed THEN [result |-> "passed", set |-> "passed"]
    ELSE IF call.outcome = "failed" THEN [result |-> "failed", set |-> "failed"]
    ELSE IF call.outcome = "skipped" THEN [result |-> "skipped", set |-> "none"]
    ELSE [result |-> old, set |-> "none"]

\* _finalize_node reads .outcome of a stage result that is None
FinalizeRaises(node) ==
    IF Missing(node, "call")
    THEN Missing(node, "setup")
    ELSE Missing(node, "setup") \/ Missing(node, "teardown")

\* _finalize_node: the decision for a node it does not raise on
Finalize(node) ==
    IF Missing(node, "call")
    THEN DecideNoCall(node.stages["setup"])
    ELSE LET all_passed == AllPassed(node.stages["setup"], node.stages["call"],
                                     node.stages["teardown"])
         IN IF node.stages["call"].xfail
            THEN DecideXfail(all_passed)
            ELSE DecideCall(all_passed, node.stages["call"], node.result)

\* self.results.execute.<set>.add(nodeid)
AddTo(set, name, d, nodeid) == IF d.set = name THEN set \cup {nodeid} ELSE set

\* mutant of LogFinish: the assertion on the id of the node in flight is
\* missing
LogFinishNoAssert(nodeid) ==
    /\ ~stored
    /\ IF current = NoNode
       THEN /\ raised' = "AttributeError"
            /\ SetsUnchanged
            /\ UNCHANGED <<current, stored, nodes>>
            /\ UNCHANGED busVars
       ELSE IF FinalizeRaises(current)
       THEN /\ raised' = "AttributeError"
            /\ nodes' = [i \in DOMAIN nodes \cup {current.nodeid} |->
                            IF i = current.nodeid THEN current ELSE nodes[i]]
            /\ stored' = TRUE
            /\ SetsUnchanged
            /\ UNCHANGED current
            /\ UNCHANGED busVars
       ELSE LET d == Finalize(current)
                n == [current EXCEPT !.result = d.result]
            IN /\ raised' = "none"
               /\ current' = n
               /\ nodes' = [i \in DOMAIN nodes \cup {current.nodeid} |->
                               IF i = current.nodeid THEN n ELSE nodes[i]]
               /\ stored' = TRUE
               /\ passed' = AddTo(passed, "passed", d, nodeid)
               /\ failed' = AddTo(failed, "failed", d, nodeid)
               /\ skipped' = AddTo(skipped, "skipped", d, nodeid)
               /\ xfailed' = AddTo(xfailed, "xfailed", d, nodeid)
               /\ xpassed' = AddTo(xpassed, "xpassed", d, nodeid)
               /\ error' = AddTo(error, "error", d, nodeid)
               /\ BusPublish(<<Draft("test:execute:item:finished", nodeid,
                                     "location")>>)
    /\ UNCHANGED <<count, hooks, extraAttrs, colVars, runVars>>

\* pytest_runtest_logfinish(nodeid, location).  The engine sends the finish
\* notification of a started item once: none follows the one that stored the
\* node until the next item start.
LogFinish(nodeid) ==
    /\ ~stored
    /\ IF current = NoNode
       THEN /\ raised' = "AttributeError"
            /\ SetsUnchanged
            /\ UNCHANGED <<current, stored, nodes>>
            /\ UNCHANGED busVars
       ELSE IF current.nodeid # nodeid
       THEN /\ raised' = "AssertionError"
            /\ SetsUnchanged
            /\ UNCHANGED <<current, stored, nodes>>
            /\ UNCHANGED busVars
       ELSE IF FinalizeRaises(current)
       THEN /\ raised' = "AttributeError"
            /\ nodes' = [i \in DOMAIN nodes \cup {nodeid} |->
                            IF i = nodeid THEN current ELSE nodes[i]]
            /\ stored' = TRUE
            /\ SetsUnchanged
            /\ UNCHANGED current
            /\ UNCHANGED busVars
       ELSE LET d == Finalize(current)
                n == [current EXCEPT !.result = d.result]
            IN /\ raised' = "none"
               /\ current' = n
               /\ nodes' = [i \in DOMAIN nodes \cup {nodeid} |->
                               IF i = nodeid THEN n ELSE nodes[i]]
               /\ stored' = TRUE
               /\ passed' = AddTo(passed, "passed", d, nodeid)
               /\ failed' = AddTo(failed, "failed", d, nodeid)
               /\ skipped' = AddTo(skipped, "skipped", d, nodeid)
               /\ xfailed' = AddTo(xfailed, "xfailed", d, nodeid)
               /\ xpassed' = AddTo(xpassed, "xpassed", d, nodeid)
               /\ error' = AddTo(error, "error", d, nodeid)
               /\ BusPublish(<<Draft("test:execute:item:finished", nodeid,
                                     "location")>>)
    /\ UNCHANGED <<count, hooks, extraAttrs, colVars, runVars>>

(***************************************************************************)
(* collection_observer.py: CollectionObserver                              *)
(***************************************************************************)
\* the source id of the collection observer
CollectSource == "src-collect"
\* module paths handed to pytest_pycollect_makemodule
Modules == {"test_runtests.py", "broken.py"}
\* the items of a session
RunItems == {"A", "B", "C"}

\* EventPublisher.publish(name, item_id, payload) of the collection observer
CollectDraft(name, item_id, payload) ==
    [source |-> CollectSource, name |-> name, item_id |-> item_id,
     payload |-> payload]

\* d[key] = value on a dict
SetKey(d, key, value) ==
    [k \in DOMAIN d \cup {key} |-> IF k = key THEN value ELSE d[k]]

\* mutant of AppendInfo: the list of the id is replaced
AppendInfoOverwrite(d, nodeid, info) == SetKey(d, nodeid, <<info>>)

\* the list stored under nodeid after the handler appended info to it,
\* creating the list when the id has none
AppendInfo(d, nodeid, info) ==
    SetKey(d, nodeid,
           Append(IF nodeid \in DOMAIN d THEN d[nodeid] ELSE <<>>, info))

\* nothing of the execution observer's state changes but the exception flag
ExecUnchanged ==
    /\ SetsUnchanged
    /\ UNCHANGED <<current, stored, nodes, count, hooks, extraAttrs>>

\* pytest_pycollect_makemodule(module_path, path, parent); fails: import_path
\* raises.  The finally clause returns None, so no exception leaves the hook.
pytest_pycollect_makemodule(module_path, fails) ==
    /\ IF fails
       THEN /\ collect_count' = collect_count + 1
            /\ collect_error' = SetKey(collect_error, module_path, "exc1")
            /\ BusPublish(<<CollectDraft("test:module:collection:error",
                                         module_path, "exception")>>)
       ELSE /\ UNCHANGED <<collect_count, collect_error>>
            /\ BusPublish(<<CollectDraft("test:collect:py:module", "parent",
                                         "path")>>)
    /\ raised' = "none"
    /\ UNCHANGED <<collect_skip, collect_xfail>>
    /\ ExecUnchanged
    /\ UNCHANGED runVars

\* mutant of pytest_itemcollected: an item with a skip mark is not counted
pytest_itemcollected_unmarked(nodeid, markers, skipped_, xfailed_) ==
    /\ collect_count' = IF skipped_ # "None" THEN collect_count
                        ELSE collect_count + 1
    /\ collect_skip' =
          IF skipped_ # "None"
          THEN AppendInfo(collect_skip, nodeid,
                          [reason |-> skipped_, markers |-> markers])
          ELSE collect_skip
    /\ collect_xfail' =
          IF xfailed_ # "None"
          THEN AppendInfo(collect_xfail, nodeid,
                          [reason |-> xfailed_, markers |-> markers])
          ELSE collect_xfail
    /\ BusPublish(<<CollectDraft("test:item:collected", nodeid, "payload")>>)
    /\ raised' = "none"
    /\ UNCHANGED collect_error
    /\ ExecUnchanged
    /\ UNCHANGED runVars

\* pytest_itemcollected(item); skipped and xfailed are the results of
\* evaluate_skip_marks and evaluate_xfail_marks ("None": no applicable mark)
pytest_itemcollected(nodeid, markers, skipped_, xfailed_) ==
    /\ collect_count' = collect_count + 1
    /\ collect_skip' =
          IF skipped_ # "None"
          THEN AppendInfo(collect_skip, nodeid,
                          [reason |-> skipped_, markers |-> markers])
          ELSE collect_skip
    /\ collect_xfail' =
          IF xfailed_ # "None"
          THEN AppendInfo(collect_xfail, nodeid,
                          [reason |-> xfailed_, markers |-> markers])
          ELSE collect_xfail
    /\ BusPublish(<<CollectDraft("test:item:collected", nodeid, "payload")>>)
    /\ raised' = "none"
    /\ UNCHANGED collect_error
    /\ ExecUnchanged
    /\ UNCHANGED runVars

\* a mark of an item; applies: the mark has no condition or a true one
Mark(name, applies, reason) ==
    [name |-> name, applies |-> applies, reason |-> reason]
SkipM == Mark("skip", TRUE, "skip: just because")
SkipIf == Mark("skipif", TRUE, "skipif: ok")
SkipIfNot == Mark("skipif", FALSE, "skipif: not ok")
XfailM == Mark("xfail", TRUE, "")

\* the marks of the items of tests/reporting, closest mark first as
\* item.iter_markers() yields them
ItemMarks ==
    { <<>>, <<SkipM>>, <<SkipIf>>, <<SkipIfNot>>, <<SkipIf, SkipM>>,
      <<SkipM, SkipIf>>, <<SkipIfNot, SkipM>>, <<SkipIf, XfailM>>, <<XfailM>> }

\* the reason of the first applicable mark with that name, or "None"
FirstApplicable(marks, name) ==
    LET idx == SelectSeq([k \in 1..Len(marks) |-> k],
                         LAMBDA k : marks[k].name = name /\ marks[k].applies)
    IN IF idx = <<>> THEN "None" ELSE marks[idx[1]].reason

\* evaluate_skip_marks(item): the first skipif mark whose condition holds,
\* else the first skip mark, else None
evaluate_skip_marks(marks) ==
    IF FirstApplicable(marks, "skipif") # "None"
    THEN FirstApplicable(marks, "skipif")
    ELSE FirstApplicable(marks, "skip")

\* evaluate_xfail_marks(item): the first applicable xfail mark, else None
evaluate_xfail_marks(marks) == FirstApplicable(marks, "xfail")

\* [mark.name for mark in item.iter_markers()]
MarkerNames(marks) == [k \in 1..Len(marks) |-> marks[k].name]

\* the item-collected notification for an item with these marks
ItemCollected(nodeid, marks) ==
    pytest_itemcollected(nodeid, MarkerNames(marks), evaluate_skip_marks(marks),
                         evaluate_xfail_marks(marks))

\* RichReporter.__init__ subscribes its event_handler (rich_reporter.py)
Init ==
    /\ idGen \in {"uuid1", "constant"}
    /\ clockKind = "now"
    /\ now = 0
    /\ nextId = 0
    /\ events = <<>>
    /\ subscriptions = <<[source |-> ReporterSource, func |-> "event_handler"]>>
    /\ notified = <<>>
    /\ calls = NoCalls
    /\ InitObs
    /\ InitCol
    /\ InitRun
    /\ queue = <<>>

\* the notifications of the engine in any order, within the bounds
Next ==
    \/ \E i \in Items :
          /\ hooks < MaxHooks /\ CanPublish(1)
          /\ LogStart(i)
          /\ UNCHANGED queue
    \/ \E w \in Stages, x \in Exceptions \cup {"None"} :
          /\ x # "None" => hooks < MaxHooks
          /\ MakeReport(w, x)
          /\ UNCHANGED queue
    \/ \E i \in Items, w \in Stages, o \in Outcomes, xf \in BOOLEAN :
          /\ hooks < MaxHooks /\ CanPublish(2)
          /\ LogReport(i, w, o, xf, 1, 3)
          /\ UNCHANGED queue
    \/ \E i \in Items :
          /\ CanPublish(1)
          /\ LogFinish(i)
          /\ UNCHANGED queue

\* the execution observer driven by the engine's notifications
Spec == Init /\ [][Next]_vars

(***************************************************************************)
(* plugin.py: PytestRichTrace                                              *)
(***************************************************************************)
\* the source id of the plugin
PluginSource == "src-plugin"

\* EventPublisher.publish(name, item_id, payload) of the plugin
PluginDraft(name, item_id, payload) ==
    [source |-> PluginSource, name |-> name, item_id |-> item_id,
     payload |-> payload]

\* nothing of the collection and execution records changes
RecordsUnchanged ==
    /\ ExecUnchanged
    /\ UNCHANGED colVars

\* pytest_sessionstart(session): the endpoints, then the environment event
\* and the run-started event
pytest_sessionstart ==
    /\ run_start' = now
    /\ run_precise_start' = perf
    /\ BusPublish(<<PluginDraft("test:run:environment", "location", "env"),
                    PluginDraft("test:run:started", "location", "start")>>)
    /\ raised' = "none"
    /\ RecordsUnchanged
    /\ UNCHANGED <<run_stop, run_precise_stop, execute_stop,
                   execute_precise_stop, perf, answer>>

\* pytest_sessionfinish(session) with _test_run_finished
pytest_sessionfinish ==
    /\ run_stop' = now
    /\ run_precise_stop' = perf
    /\ execute_stop' = now
    /\ execute_precise_stop' = perf
    /\ BusPublish(<<PluginDraft("test:execution:finished", "", "stop"),
                    PluginDraft("test:run:finished", "", "stop")>>)
    /\ raised' = "none"
    /\ RecordsUnchanged
    /\ UNCHANGED <<run_start, run_precise_start, perf, answer>>

\* the result of an accessor call: an exception or a value
Raises(exc) == [raised |-> exc, value |-> NoTime]
Returns(v) == [raised |-> "none", value |-> v]

\* mutant of duration_wall: the endpoints are subtracted without a check
duration_wall_unchecked(start, stop) == Returns(stop - start)

\* PytestRichTrace.duration() on the endpoints start and stop
duration_wall(start, stop) ==
    IF stop = NoTime \/ start = NoTime THEN Raises("ValueError")
    ELSE IF stop < start THEN Raises("ValueError")
    ELSE Returns(stop - start)

\* PytestRichTrace.duration_precise() on the endpoints start and stop
duration_precise(start, stop) ==
    IF stop = NoTime \/ start = NoTime THEN Raises("ValueError")
    ELSE IF stop < start THEN Raises("ValueError")
    ELSE Returns(stop - start)

\* a client calls duration()
CallDuration ==
    /\ answer' = [of |-> "duration", start |-> run_start, stop |-> run_stop,
                  result |-> duration_wall(run_start, run_stop)]
    /\ UNCHANGED <<run_start, run_stop, run_precise_start, run_precise_stop,
                   execute_stop, execute_precise_stop, perf>>
    /\ UNCHANGED <<busVars, obsVars, colVars>>

\* a client calls duration_precise()
CallDurationPrecise ==
    /\ answer' = [of |-> "duration_precise", start |-> run_precise_start,
                  stop |-> run_precise_stop,
                  result |-> duration_precise(run_precise_start,
                                              run_precise_stop)]
    /\ UNCHANGED <<run_start, run_stop, run_precise_start, run_precise_stop,
                   execute_stop, execute_precise_stop, perf>>
    /\ UNCHANGED <<busVars, obsVars, colVars>>

\* time.perf_counter() moves on between operations; it never goes back
PerfTick ==
    /\ perf < MaxTime
    /\ perf' = perf + 1
    /\ UNCHANGED <<run_start, run_stop, run_precise_start, run_precise_stop,
                   execute_stop, execute_precise_stop, answer>>
    /\ UNCHANGED <<busVars, obsVars, colVars>>

(***************************************************************************)
(* A session: the engine collects the items of tests/test_runtests.py and  *)
(* runs them in collection order                                           *)
(***************************************************************************)
\* a notification of the engine
Notification(op, nodeid, when, outcome, exc) ==
    [op |-> op, nodeid |-> nodeid, when |-> when, outcome |-> outcome,
     exc |-> exc]

\* the engine's report of one stage: makereport with the captured exception,
\* then the log report
StageScript(i, when, outcome, exc) ==
    << Notification("makereport", i, when, "", exc),
       Notification("logreport", i, when, outcome, "None") >>

\* test_ok (A), test_failure (B) and test_skipped (C)
ItemScript(i) ==
    << Notification("logstart", i, "", "", "None") >>
    \o (CASE i = "A" -> StageScript(i, "setup", "passed", "None")
                         \o StageScript(i, "call", "passed", "None")
          [] i = "B" -> StageScript(i, "setup", "passed", "None")
                         \o StageScript(i, "call", "failed", "exc1")
          [] i = "C" -> StageScript(i, "setup", "skipped", "exc1"))
    \o StageScript(i, "teardown", "passed", "None")
    \o << Notification("logfinish", i, "", "", "None") >>

\* the marks of the items: test_skipped carries a skip mark
SkipMark(i) == IF i = "C" THEN "just because" ELSE "None"
Markers(i) == IF i = "C" THEN <<"skip">> ELSE <<>>

\* the orders in which the three items can be collected
Orders ==
    {o \in [1..3 -> RunItems] : \A j, k \in 1..3 : j # k => o[j] # o[k]}

\* the notifications of a session that collects in order o; broken: a
\* module that raises on import is met first
Session(o, broken) ==
    << Notification("sessionstart", "", "", "", "None") >>
    \o (IF broken
        THEN << Notification("makemodule", "broken.py", "", "", "exc1") >>
        ELSE << >>)
    \o << Notification("makemodule", "test_runtests.py", "", "", "None") >>
    \o [k \in 1..3 |-> Notification("itemcollected", o[k], "", "", "None")]
    \o ItemScript(o[1]) \o ItemScript(o[2]) \o ItemScript(o[3])
    \o << Notification("sessionfinish", "", "", "", "None") >>

\* PytestRichTrace.__init__ (plugin.py): a bus with the default generators,
\* the reporter subscribed
RunInit ==
    /\ idGen = "uuid1"
    /\ clockKind = "now"
    /\ now = 0
    /\ nextId = 0
    /\ events = <<>>
    /\ subscriptions = <<[source |-> ReporterSource, func |-> "event_handler"]>>
    /\ notified = <<>>
    /\ calls = NoCalls
    /\ InitObs
    /\ InitCol
    /\ InitRun
    /\ queue \in {Session(o, b) : o \in Orders, b \in BOOLEAN}

\* the engine delivers the next notification; an exception that leaves a
\* hook ends the session, which the engine still reports as finished
RunNext ==
    /\ queue # <<>>
    /\ LET n == Head(queue)
       IN \/ /\ n.op = "sessionstart"
             /\ pytest_sessionstart
          \/ /\ n.op = "sessionfinish"
             /\ pytest_sessionfinish
          \/ /\ n.op = "makemodule"
             /\ pytest_pycollect_makemodule(n.nodeid, n.exc # "None")
          \/ /\ n.op = "itemcollected"
             /\ pytest_itemcollected(n.nodeid, Markers(n.nodeid),
                                     SkipMark(n.nodeid), "None")
          \/ /\ n.op = "logstart"
             /\ LogStart(n.nodeid)
          \/ /\ n.op = "makereport"
             /\ MakeReport(n.when, n.exc)
          \/ /\ n.op = "logreport"
             /\ LogReport(n.nodeid, n.when, n.outcome, FALSE, 1, 3)
          \/ /\ n.op = "logfinish"
             /\ LogFinish(n.nodeid)
    /\ queue' = IF raised' = "none" THEN Tail(queue)
                ELSE << Notification("sessionfinish", "", "", "", "None") >>

\* a session of the plugin
SpecRun == RunInit /\ [][RunNext]_vars

(***************************************************************************)
(* A collection: the engine's collection notifications in any order        *)
(***************************************************************************)
CollectInit ==
    /\ idGen = "uuid1"
    /\ clockKind = "now"
    /\ now = 0
    /\ nextId = 0
    /\ events = <<>>
    /\ subscriptions = <<[source |-> ReporterSource, func |-> "event_handler"]>>
    /\ notified = <<>>
    /\ calls = NoCalls
    /\ InitObs
    /\ InitCol
    /\ InitRun
    /\ queue = <<>>

CollectNext ==
    \/ \E m \in Modules, fails \in BOOLEAN :
          /\ nextId < MaxCollected
          /\ pytest_pycollect_makemodule(m, fails)
          /\ UNCHANGED queue
    \/ \E i \in Items, marks \in ItemMarks :
          /\ nextId < MaxCollected
          /\ ItemCollected(i, marks)
          /\ UNCHANGED queue

SpecCollect == CollectInit /\ [][CollectNext]_vars

(***************************************************************************)
(* The endpoints of a run: session start and finish, the clocks moving and *)
(* clients calling the duration accessors at any time                      *)
(***************************************************************************)
SessionInit ==
    /\ idGen = "uuid1"
    /\ clockKind = "now"
    /\ now \in 0..MaxTime
    /\ nextId = 0
    /\ events = <<>>
    /\ subscriptions = <<[source |-> ReporterSource, func |-> "event_handler"]>>
    /\ notified = <<>>
    /\ calls = NoCalls
    /\ InitObs
    /\ InitCol
    /\ InitRun
    /\ queue = << Notification("sessionstart", "", "", "", "None"),
                  Notification("sessionfinish", "", "", "", "None") >>

SessionNext ==
    \/ /\ queue # <<>> /\ Head(queue).op = "sessionstart"
       /\ pytest_sessionstart
       /\ queue' = Tail(queue)
    \/ /\ queue # <<>> /\ Head(queue).op = "sessionfinish"
       /\ pytest_sessionfinish
       /\ queue' = Tail(queue)
    \/ \E t \in 0..MaxTime : Tick(t)
    \/ PerfTick /\ UNCHANGED <<raised, queue>>
    \/ CallDuration /\ UNCHANGED <<raised, queue>>
    \/ CallDurationPrecise /\ UNCHANGED <<raised, queue>>

SpecSession == SessionInit /\ [][SessionNext]_vars

(***************************************************************************)
(* event.py: publish with callbacks that publish or raise.  A callback     *)
(* runs inside _notify, inside publish: what it does to the bus happens    *)
(* before the loop of _notify goes on to the next subscription             *)
(***************************************************************************)
\* nested calls of publish the interpreter allows before RecursionError
MaxDepth == 3
\* registered subscriptions when callbacks publish or raise
MaxNestedSubs == 3
\* a callback that publishes an event under the source of its subscription
Republish == "publish_in_callback"
\* a callback that raises
RaiseInCallback == "raise_in_callback"
NestedFuncs == {"event_handler", Republish, RaiseInCallback}
NestedSources == {RunTestSource, ReporterSource, PluginSource}

\* the event a republishing callback hands to publish
EchoDraft(S) == [source |-> S, name |-> "echo", item_id |-> "here",
                 payload |-> "None"]

\* mutant of Eligible: no self-exclusion
EligibleAlways(sub, e) == TRUE

\* the test of _notify (line 113)
Eligible(sub, e) == sub.source # e.source

\* the bus at the start of a top-level publish
CallStart == [events |-> events, notified |-> <<>>, gen |-> 0, raised |-> "none"]

RECURSIVE PublishNested(_, _, _)
RECURSIVE NotifyNested(_, _, _, _)

\* mutant of PublishNested: the event is stored after the notification
PublishNestedStoreLast(st, draft, depth) ==
    IF depth > MaxDepth THEN [st EXCEPT !.raised = "RecursionError"]
    ELSE LET e == NewEvent(GenId(st.gen), Clock, draft)
             r == NotifyNested([st EXCEPT !.gen = @ + 1], e, 1, depth)
         IN IF r.raised # "none" THEN r
            ELSE [r EXCEPT !.events = StoreEvent(@, e)]

\* publish(event) called at nesting depth `depth`: st holds the stored
\* events, the invocations made and the ids generated so far in the
\* top-level call, and the exception on its way out, if any
PublishNested(st, draft, depth) ==
    IF depth > MaxDepth THEN [st EXCEPT !.raised = "RecursionError"]
    ELSE LET e == NewEvent(GenId(st.gen), Clock, draft)
         IN NotifyNested([st EXCEPT !.events = StoreEvent(@, e), !.gen = @ + 1],
                         e, 1, depth)

\* the loop of _notify for event e from the k-th subscription on; an
\* exception of a callback leaves the loop and publish
NotifyNested(st, e, k, depth) ==
    IF k > Len(subscriptions) THEN st
    ELSE IF ~Eligible(subscriptions[k], e) THEN NotifyNested(st, e, k + 1, depth)
    ELSE LET sub == subscriptions[k]
             called == [st EXCEPT !.notified =
                           Append(@, [sub |-> k, func |-> sub.func, event |-> e])]
             after == CASE sub.func = Republish ->
                              PublishNested(called, EchoDraft(sub.source), depth + 1)
                        [] sub.func = RaiseInCallback ->
                              [called EXCEPT !.raised = "RuntimeError"]
                        [] OTHER -> called
         IN IF after.raised # "none" THEN after
            ELSE NotifyNested(after, e, k + 1, depth)

\* EventBus.publish(event) called by a client of the bus
PublishTop(draft) ==
    /\ nextId < MaxEvents
    /\ LET r == PublishNested(CallStart, draft, 1)
       IN /\ events' = r.events
          /\ notified' = r.notified
          /\ nextId' = nextId + r.gen
          /\ raised' = r.raised
          /\ calls' = [ids |-> IF r.raised = "none" THEN <<GenId(0)>> ELSE <<>>,
                       generator |-> r.gen, clock |-> r.gen]
    /\ UNCHANGED <<idGen, clockKind, now, subscriptions>>
    /\ ExecUnchanged
    /\ UNCHANGED <<colVars, queue, runVars>>

\* EventBus.subscribe(source, func)
NestedSubscribe(S, f) ==
    /\ Len(subscriptions) < MaxNestedSubs
    /\ subscriptions' = Append(subscriptions, [source |-> S, func |-> f])
    /\ notified' = <<>>
    /\ raised' = "none"
    /\ UNCHANGED <<idGen, clockKind, now, nextId, events, calls>>
    /\ ExecUnchanged
    /\ UNCHANGED <<colVars, queue, runVars>>

NestedInit ==
    /\ idGen = "uuid1"
    /\ clockKind = "now"
    /\ now = 0
    /\ nextId = 0
    /\ events = <<>>
    /\ subscriptions = <<>>
    /\ notified = <<>>
    /\ calls = NoCalls
    /\ InitObs
    /\ InitCol
    /\ InitRun
    /\ queue = <<>>

NestedNext ==
    \/ \E S \in NestedSources : PublishTop(EchoDraft(S))
    \/ \E S \in NestedSources, f \in NestedFuncs : NestedSubscribe(S, f)

\* the bus with subscribers that publish or raise in their callbacks
SpecNested == NestedInit /\ [][NestedNext]_vars

(***************************************************************************)
(* Claims                                                                  *)
(***************************************************************************)
\* C1: a callback registered with subscribe(S, f) is never invoked with an
\* event whose source equals S.
C1_SelfExclusion ==
    \A k \in 1..Len(notified) :
        subscriptions[notified[k].sub].source # notified[k].event.source

\* C1 witness: a publish invoked one subscription and skipped another whose
\* source is the event's source.
C1_Witness ==
    /\ Len(notified) > 0
    /\ \E i \in 1..Len(subscriptions) :
          subscriptions[i].source = notified[1].event.source
(***************************************************************************)
(* Vocabulary of the claims about the execution record                     *)
(***************************************************************************)
SetNames == {"passed", "failed", "skipped", "xfailed", "xpassed", "error"}

\* the names of the result sets that hold item i
SetsOf(i) ==
    {n \in SetNames :
        CASE n = "passed" -> i \in passed
          [] n = "failed" -> i \in failed
          [] n = "skipped" -> i \in skipped
          [] n = "xfailed" -> i \in xfailed
          [] n = "xpassed" -> i \in xpassed
          [] n = "error" -> i \in error}

\* the node holds a result for stage w with outcome o
Recorded(node, w, o) ==
    IF Missing(node, w) THEN FALSE ELSE node.stages[w].outcome = o

\* the node holds a result for each of the three stages
AllRecorded(node) == DOMAIN node.stages = Stages

\* the call result of the node is marked xfail
CallXfail(node) ==
    IF Missing(node, "call") THEN FALSE ELSE node.stages["call"].xfail

\* a step: the finish notification of the item in flight is processed
Finishes(i) == LogFinish(i) /\ current # NoNode /\ current.nodeid = i

\* a step: the finish notification of item i runs the decision to its end
Finalizes(i) == Finishes(i) /\ ~FinalizeRaises(current)

\* a step sets the result of item i to r and adds i to the sets named in S
\* and to no other set
Classifies(i, r, S) ==
    /\ current'.result = r
    /\ nodes'[i] = current'
    /\ passed' = IF "passed" \in S THEN passed \cup {i} ELSE passed
    /\ failed' = IF "failed" \in S THEN failed \cup {i} ELSE failed
    /\ skipped' = IF "skipped" \in S THEN skipped \cup {i} ELSE skipped
    /\ xfailed' = IF "xfailed" \in S THEN xfailed \cup {i} ELSE xfailed
    /\ xpassed' = IF "xpassed" \in S THEN xpassed \cup {i} ELSE xpassed
    /\ error' = IF "error" \in S THEN error \cup {i} ELSE error

\* item i has a node with result r and is in exactly the set named n
Classified(i, r, n) ==
    /\ i \in DOMAIN nodes
    /\ nodes[i].result = r
    /\ SetsOf(i) = {n}

\* the documented gap: no call result, setup neither skipped nor failed
GapUnknown(node) ==
    /\ node.result = "unknown"
    /\ Missing(node, "call")
    /\ ~Recorded(node, "setup", "skipped")
    /\ ~Recorded(node, "setup", "failed")

\* the documented gap: Skipped through a call outcome of skipped, not xfail
GapSkippedCall(node) ==
    /\ node.result = "skipped"
    /\ Recorded(node, "call", "skipped")
    /\ ~CallXfail(node)

\* every stage result of the node holds an outcome reported by the engine
OutcomesRecorded(node) ==
    \A w \in DOMAIN node.stages : node.stages[w].outcome \in Outcomes

\* C2: once the finish notification of an item has been processed to its
\* end, the item id is in exactly one of the six sets, for every combination
\* of recorded stage outcomes and xfail flags, unless one of the two
\* documented gap cases applies.
C2_ExactlyOneSet ==
    [][\A i \in Items :
          (Finalizes(i) /\ OutcomesRecorded(current)) =>
             \/ GapUnknown(nodes'[i])
             \/ GapSkippedCall(nodes'[i])
             \/ Cardinality(SetsOf(i)') = 1]_vars

C4_FinalizeNeverRaises ==
    [][\A i \in Items : Finishes(i) => raised' = "none"]_vars

\* C5: with Setup, Call and Teardown recorded as passed and Call not marked
\* xfail, finalization sets Result to Passed, adds the id to passed and adds
\* it to none of the other five sets.
C5_Passed ==
    [][\A i \in Items :
          (/\ Finalizes(i)
           /\ Recorded(current, "setup", "passed")
           /\ Recorded(current, "call", "passed")
           /\ Recorded(current, "teardown", "passed")
           /\ ~CallXfail(current))
          => Classifies(i, "passed", {"passed"})]_vars

\* C5 witness: an item recorded passed in all stages is Passed, in passed only.
C5_Witness ==
    \E i \in Items :
        /\ Classified(i, "passed", "passed")
        /\ Recorded(nodes[i], "setup", "passed")
        /\ Recorded(nodes[i], "call", "passed")
        /\ Recorded(nodes[i], "teardown", "passed")
        /\ ~CallXfail(nodes[i])

\* C6: with Setup passed, Call failed and not marked xfail, Teardown passed,
\* finalization sets Result to Failed, adds the id to failed and to no other
\* set.
C6_Failed ==
    [][\A i \in Items :
          (/\ Finalizes(i)
           /\ Recorded(current, "setup", "passed")
           /\ Recorded(current, "call", "failed")
           /\ Recorded(current, "teardown", "passed")
           /\ ~CallXfail(current))
          => Classifies(i, "failed", {"failed"})]_vars

\* C6 witness: an item whose call failed is Failed, in failed only.
C6_Witness ==
    \E i \in Items :
        /\ Classified(i, "failed", "failed")
        /\ Recorded(nodes[i], "setup", "passed")
        /\ Recorded(nodes[i], "call", "failed")
        /\ Recorded(nodes[i], "teardown", "passed")
        /\ ~CallXfail(nodes[i])

\* C7: with Setup skipped and no Call result, finalization sets Result to
\* Skipped, adds the id to skipped and to no other set, whatever the
\* Teardown result and the xfail flags of Setup and Teardown are.
C7_SkippedAtSetup ==
    [][\A i \in Items :
          (/\ Finalizes(i)
           /\ Recorded(current, "setup", "skipped")
           /\ Missing(current, "call"))
          => Classifies(i, "skipped", {"skipped"})]_vars

\* C7 witness: an item skipped at setup, its setup and teardown results
\* marked xfail and the teardown failed, is Skipped, in skipped only.
C7_Witness ==
    \E i \in Items :
        /\ Classified(i, "skipped", "skipped")
        /\ Recorded(nodes[i], "setup", "skipped")
        /\ Missing(nodes[i], "call")
        /\ Recorded(nodes[i], "teardown", "failed")
        /\ nodes[i].stages["setup"].xfail
        /\ nodes[i].stages["teardown"].xfail

\* C8: with Setup failed and no Call result, finalization sets Result to
\* Error, adds the id to error and to no other set.
C8_ErrorAtSetup ==
    [][\A i \in Items :
          (/\ Finalizes(i)
           /\ Recorded(current, "setup", "failed")
           /\ Missing(current, "call"))
          => Classifies(i, "error", {"error"})]_vars

\* C8 witness: an item whose setup failed is Error, in error only.
C8_Witness ==
    \E i \in Items :
        /\ Classified(i, "error", "error")
        /\ Recorded(nodes[i], "setup", "failed")
        /\ Missing(nodes[i], "call")

\* C9: for a node holding the three stage results with Call marked xfail,
\* finalization gives XPassed and xpassed only when the three outcomes are
\* passed, and XFailed and xfailed only otherwise; the xfail flags of Setup
\* and Teardown play no part.
C9_Xfail ==
    [][\A i \in Items :
          (Finalizes(i) /\ AllRecorded(current) /\ CallXfail(current))
          => IF /\ Recorded(current, "setup", "passed")
                /\ Recorded(current, "call", "passed")
                /\ Recorded(current, "teardown", "passed")
             THEN Classifies(i, "xpassed", {"xpassed"})
             ELSE Classifies(i, "xfailed", {"xfailed"})]_vars

\* C9 witness: Call marked xfail and passed, Teardown failed: XFailed, in
\* xfailed only, although Setup is not marked xfail.
C9_Witness ==
    \E i \in Items :
        /\ Classified(i, "xfailed", "xfailed")
        /\ AllRecorded(nodes[i])
        /\ CallXfail(nodes[i])
        /\ Recorded(nodes[i], "setup", "passed")
        /\ Recorded(nodes[i], "call", "passed")
        /\ Recorded(nodes[i], "teardown", "failed")
        /\ ~nodes[i].stages["setup"].xfail

\* C10: for a node holding the three stage results with Call not marked
\* xfail and Call outcome skipped, finalization sets Result to Skipped and
\* adds the id to none of the six sets.
C10_SkippedCallNoSet ==
    [][\A i \in Items :
          (/\ Finalizes(i)
           /\ AllRecorded(current)
           /\ ~CallXfail(current)
           /\ Recorded(current, "call", "skipped"))
          => Classifies(i, "skipped", {})]_vars

\* C10 witness: an item whose call was skipped is Skipped and in no set.
C10_Witness ==
    \E i \in Items :
        /\ i \in DOMAIN nodes
        /\ nodes[i].result = "skipped"
        /\ SetsOf(i) = {}
        /\ AllRecorded(nodes[i])
        /\ ~CallXfail(nodes[i])
        /\ Recorded(nodes[i], "call", "skipped")

\* C11: with a Setup result whose outcome is neither skipped nor failed and no
\* Call result, processing the finish notification does not raise, sets
\* Result to Unknown, adds the id to none of the six sets and records the
\* node in execute.nodes.
C11_UnknownNoSet ==
    [][\A i \in Items :
          (/\ Finishes(i)
           /\ ~Missing(current, "setup")
           /\ Missing(current, "call")
           /\ ~Recorded(current, "setup", "skipped")
           /\ ~Recorded(current, "setup", "failed"))
          => /\ raised' = "none"
             /\ Classifies(i, "unknown", {})
             /\ i \in DOMAIN nodes']_vars

\* C11 witness: an item with Setup passed and no Call result was finished:
\* no exception, Result Unknown, in no set, recorded in execute.nodes.
C11_Witness ==
    \E i \in Items :
        /\ stored /\ current.nodeid = i /\ raised = "none"
        /\ i \in DOMAIN nodes
        /\ nodes[i].result = "unknown"
        /\ Recorded(nodes[i], "setup", "passed")
        /\ Missing(nodes[i], "call")
        /\ SetsOf(i) = {}

\* a step: the start notification of an item, a makereport call that
\* captured an exception of the Setup or Call stage, or a Setup or Call report
BeforeTeardown ==
    \/ \E i \in Items : LogStart(i)
    \/ \E w \in {"setup", "call"}, x \in Exceptions : MakeReport(w, x)
    \/ \E i \in Items, w \in {"setup", "call"}, o \in Outcomes, xf \in BOOLEAN :
          LogReport(i, w, o, xf, 1, 3)

\* C12: processing an item's start notification, its makereport calls and
\* its Setup and Call reports leaves execute.nodes and the six result sets
\* unchanged (checked on the steps that follow a notification processed
\* without exception and raise none themselves).
C12_NoEffectBeforeTeardown ==
    [][(BeforeTeardown /\ raised = "none" /\ raised' = "none") =>
          UNCHANGED <<nodes, passed, failed, skipped, xfailed, xpassed, error>>]_vars

\* C13: once an item id is classified, no later notification creates a new
\* node record for that id, changes the Result of execute.nodes[id] or adds
\* the id to another set.
C13_FinalizedOnce ==
    [][\A i \in Items :
          (i \in DOMAIN nodes /\ SetsOf(i) # {}) =>
             /\ ~LogStart(i)
             /\ nodes'[i].result = nodes[i].result
             /\ SetsOf(i)' = SetsOf(i)]_vars

RunOver == queue = <<>>

\* C15: a session over A (all stages pass), B (Call fails) and C (skip mark)
\* in which every module imports ends with passed = {A}, failed = {B},
\* skipped = {C}, the other three sets empty and collect.count = 3.
C15_EndToEnd ==
    (RunOver /\ collect_error = <<>>) =>
        /\ passed = {"A"} /\ failed = {"B"} /\ skipped = {"C"}
        /\ error = {} /\ xfailed = {} /\ xpassed = {}
        /\ collect_count = 3

\* C16: a module that raises on import is recorded in collect.error under
\* its path and leaves collect.count unchanged.
C16_ModuleErrorNoCount ==
    [][\A m \in Modules :
          pytest_pycollect_makemodule(m, TRUE) =>
             /\ m \in DOMAIN collect_error'
             /\ collect_count' = collect_count]_vars

(***************************************************************************)
(* Claims about the event store                                            *)
(***************************************************************************)
\* C17: get_with_id(publish(e)) returns an event whose source, name, item_id
\* and payload are those of the draft e.
C17_RoundTrip ==
    [][\A d \in Drafts :
          Publish(d) =>
             \E id \in {GenId(0)} :
                /\ Len(get_with_id(id)') = 1
                /\ get_with_id(id)'[1].id = id
                /\ get_with_id(id)'[1].source = d.source
                /\ get_with_id(id)'[1].name = d.name
                /\ get_with_id(id)'[1].item_id = d.item_id
                /\ get_with_id(id)'[1].payload = d.payload]_vars

\* C17 witness: an event published by the reporter's source is stored and
\* returned by get_with_id with the fields of its draft.
C17_Witness ==
    \E k \in 1..Len(events) :
        /\ get_with_id(events[k].id) = <<events[k]>>
        /\ events[k].source = ReporterSource
        /\ events[k].name = "class"
        /\ events[k].item_id = "here"

\* C18: publish never assigns an id an earlier publish on the bus used: each
\* publish adds one stored event under a new id, for every id generator.
C18_FreshIds ==
    [][\A d \in Drafts :
          Publish(d) =>
             /\ \A k \in 1..Len(events) : events[k].id # GenId(0)
             /\ Len(events') = Len(events) + 1]_vars

\* C19: the event get_with_id returns for an id is the same after every
\* later operation on the bus.
C19_StoredImmutable ==
    [][\A k \in 1..Len(events) :
          get_with_id(events[k].id)' = <<events[k]>>]_vars

\* C20: get_from_source(S) is the sequence of the events published with
\* source S, in publish order: a publish appends its event to the answer
\* for its own source and leaves the answer for every other source as it was.
C20_FromSourceInOrder ==
    [][\A d \in Drafts :
          Publish(d) =>
             \A S \in Sources : \E id \in {GenId(0)}, t \in {Clock} :
                get_from_source(S)' =
                   IF S = d.source
                   THEN Append(get_from_source(S), NewEvent(id, t, d))
                   ELSE get_from_source(S)]_vars

(***************************************************************************)
(* Claims about notification                                               *)
(***************************************************************************)
\* the invocations of the i-th subscription made by the step's operation
InvocationsOf(i) == {k \in 1..Len(notified') : notified'[k].sub = i}

\* C21: publish(e) invokes every subscription that is registered when publish
\* is called and whose source differs from e.source exactly once, with the
\* stored event, before it returns.
C21_NotifiesAll ==
    [][\A d \in Drafts :
          Publish(d) =>
             \E id \in {GenId(0)} :
                \A i \in 1..Len(subscriptions) :
                   subscriptions[i].source # d.source =>
                      /\ Cardinality(InvocationsOf(i)) = 1
                      /\ \A k \in InvocationsOf(i) :
                            /\ notified'[k].func = subscriptions[i].func
                            /\ <<notified'[k].event>> = get_with_id(id)']_vars

\* C21 witness: a publish invoked two subscriptions, both registered before
\* it, with the event it stored.
C21_Witness ==
    /\ Len(notified) = 2
    /\ notified[1].sub = 1 /\ notified[1].func = "event_handler"
    /\ notified[2].sub = 2 /\ notified[2].func = "call_me"
    /\ notified[1].event = notified[2].event
    /\ get_with_id(notified[1].event.id) = <<notified[1].event>>

\* C22: a callback is invoked for no event published before its subscribe
\* call, an event whose notification is in progress included; subscribe adds
\* exactly one subscription and invokes no callback.
C22_NoNotifyBeforeSubscribe ==
    [][/\ \A d \in Drafts :
            Publish(d) =>
               \A k \in 1..Len(notified') : notified'[k].sub <= Len(subscriptions)
       /\ \A S \in Sources, f \in Funcs :
            Subscribe(S, f) =>
               /\ notified' = <<>>
               /\ subscriptions' =
                     Append(subscriptions, [source |-> S, func |-> f])]_vars

\* C23: publish calls the injected id generator and the injected clock once
\* each, returns the generated id, and the event stored under that id has
\* that id and that clock value as its time; a bus on which nothing was
\* published stores no events.
C23_PublishIdAndTime ==
    [][/\ calls = NoCalls => events = <<>>
       /\ \A d \in Drafts :
            Publish(d) =>
               \E id \in {GenId(0)}, t \in {Clock} :
                  /\ calls'.generator = 1
                  /\ calls'.clock = 1
                  /\ calls'.ids = <<id>>
                  /\ idGen = "uuid1" => nextId' = nextId + 1
                  /\ Len(get_with_id(id)') = 1
                  /\ get_with_id(id)'[1].id = id
                  /\ get_with_id(id)'[1].time = t]_vars

\* C23 witness: on a bus built with the constant id generator and the fixed
\* clock, publish returned the constant id and the event stored under it has
\* the clock's value.
C23_Witness ==
    /\ idGen = "constant" /\ clockKind = "fixed"
    /\ calls = [ids |-> <<AlwaysTheSame>>, generator |-> 1, clock |-> 1]
    /\ Len(get_with_id(AlwaysTheSame)) = 1
    /\ get_with_id(AlwaysTheSame)[1].time = FixedTime

\* C24: event times are non-decreasing in publish order.
C24_TimesNonDecreasing ==
    \A i, j \in 1..Len(events) : i < j => events[i].time <= events[j].time

(***************************************************************************)
(* Claims about the collection record                                      *)
(***************************************************************************)
\* the list stored for an id in a skip or xfail annotation dict
ListOf(d, i) == IF i \in DOMAIN d THEN d[i] ELSE <<>>

\* sequence a is a prefix of sequence b
IsPrefix(a, b) == Len(a) <= Len(b) /\ \A k \in 1..Len(a) : a[k] = b[k]

\* C25: each item-collected notification increases collect.count by exactly
\* 1, whatever marks the item carries and whether or not its id was
\* collected before.
C25_CountPerItem ==
    [][\A i \in Items, marks \in ItemMarks :
          ItemCollected(i, marks) => collect_count' = collect_count + 1]_vars

\* C25 witness: one id was collected twice, each time with a skip mark, and
\* the count is 2.
C25_Witness ==
    /\ collect_count = 2
    /\ \E i \in Items : Len(ListOf(collect_skip, i)) = 2

\* C26: an item-collected notification never removes or overwrites a stored
\* skip or xfail annotation: for every id the list before the notification
\* is a prefix of the list after it.
C26_AppendOnly ==
    [][\A i \in Items, marks \in ItemMarks :
          ItemCollected(i, marks) =>
             \A j \in Items :
                /\ IsPrefix(ListOf(collect_skip, j), ListOf(collect_skip', j))
                /\ IsPrefix(ListOf(collect_xfail, j), ListOf(collect_xfail', j))]_vars

\* C26 witness: an id holds two skip annotations with different reasons,
\* the one of its first collection still in first place.
C26_Witness ==
    \E i \in Items :
        /\ Len(ListOf(collect_skip, i)) = 2
        /\ collect_skip[i][1].reason = SkipM.reason
        /\ collect_skip[i][2].reason = SkipIf.reason

\* the applicable skip marks among the marks of an item
ApplicableSkips(marks) ==
    SelectSeq(marks, LAMBDA m : m.name \in {"skip", "skipif"} /\ m.applies)

\* C27: an item with several applicable skip markers has, after it was
\* collected once, one skip annotation per applicable marker, in marker
\* order.
C27_OnePerMarker ==
    [][\A i \in Items, marks \in ItemMarks :
          (ItemCollected(i, marks) /\ i \notin DOMAIN collect_skip) =>
             /\ Len(ListOf(collect_skip', i)) = Len(ApplicableSkips(marks))
             /\ \A k \in 1..Len(ListOf(collect_skip', i)) :
                   collect_skip'[i][k].reason = ApplicableSkips(marks)[k].reason]_vars

\* C28: a call of the wall-clock duration accessor raises when the start or
\* the stop of the run is unset or the stop precedes the start, and otherwise
\* returns stop - start, which is not negative.
C28_DurationValidated ==
    [][CallDuration =>
          IF run_start = NoTime \/ run_stop = NoTime \/ run_stop < run_start
          THEN answer'.result.raised = "ValueError"
          ELSE /\ answer'.result.raised = "none"
               /\ answer'.result.value = run_stop - run_start
               /\ answer'.result.value >= 0]_vars

\* C28 witness: the accessor was called after the session finished with a
\* wall clock that went back in between, and it raised.
C28_Witness ==
    /\ answer.of = "duration"
    /\ answer.start # NoTime /\ answer.stop # NoTime
    /\ answer.stop < answer.start
    /\ answer.result.raised = "ValueError"

\* C28 second witness: the accessor returned a positive duration.
C28_WitnessValue ==
    /\ answer.of = "duration"
    /\ answer.result.raised = "none"
    /\ answer.result.value > 0

\* C29: a call of the precise duration accessor raises when the session
\* start or the session finish callback has not yet set its endpoint, or
\* the precise stop precedes the precise start; a returned duration is not
\* negative.
C29_PreciseValidated ==
    [][CallDurationPrecise =>
          /\ (run_start = NoTime \/ run_stop = NoTime
                 \/ run_precise_stop < run_precise_start)
                => answer'.result.raised = "ValueError"
          /\ answer'.result.raised = "none" => answer'.result.value >= 0]_vars

\* the names of the events on the bus, in the order of their publication
\* (the ids of a run are generated in increasing order)
PublishedNames == [k \in 1..Len(events) |-> events[k].name]

\* the number of published events with the given name
TimesPublished(name) ==
    Cardinality({k \in 1..Len(events) : events[k].name = name})

\* C30: in a run the run-started event is the first event on the bus and is
\* published once; when the run is over the run-finished event is the last
\* event and was published once.
C30_RunBracketed ==
    /\ events # <<>> => PublishedNames[1] = "test:run:started"
    /\ TimesPublished("test:run:started") <= 1
    /\ RunOver =>
          /\ events # <<>>
          /\ PublishedNames[Len(events)] = "test:run:finished"
          /\ TimesPublished("test:run:started") = 1
          /\ TimesPublished("test:run:finished") = 1

\* C31: after a stage report with start timestamp 1 and stop timestamp 3 was
\* processed, the duration of the stage result it was recorded in is 3 - 1.
C31_StageDuration ==
    [][\A i \in Items, w \in Stages, o \in Outcomes, xf \in BOOLEAN :
          (LogReport(i, w, o, xf, 1, 3) /\ current # NoNode) =>
             /\ w \in DOMAIN current'.stages
             /\ duration(current'.stages[w]) = 3 - 1]_vars

\* the node record of item i: the node in flight when it is i's, else the
\* record stored under i, else none
ItemNode(i) ==
    IF current # NoNode /\ current.nodeid = i THEN current
    ELSE IF i \in DOMAIN nodes THEN nodes[i]
    ELSE NoNode

\* the stages recorded for item i
StagesOf(i) == IF ItemNode(i) = NoNode THEN <<>> ELSE ItemNode(i).stages

\* a step: a stage report is processed to its end and its events published
Reports(i, w, o) ==
    /\ \E xf \in BOOLEAN : LogReport(i, w, o, xf, 1, 3)
    /\ current # NoNode
    /\ raised' = "none"

C34_ReportGoesToOwnNode ==
    [][\A i \in Items, w \in Stages, o \in Outcomes :
          Reports(i, w, o) =>
             /\ w \in DOMAIN StagesOf(i)'
             /\ StagesOf(i)'[w].outcome = o
             /\ \A j \in Items \ {i} : StagesOf(j)' = StagesOf(j)]_vars

\* the stored events named ExecuteItemReport that carry item id i
ItemReportEvents(i) ==
    {k \in 1..Len(events) :
        events[k].name = "test:execute:item:report" /\ events[k].item_id = i}

\* C36: a stage report of an item processed to its end publishes one
\* ExecuteItemReport event for that item (ids are fresh, so every published
\* event is a stored event of its own).
C36_OneReportEventPerStage ==
    [][\A i \in Items, w \in Stages, o \in Outcomes :
          (Reports(i, w, o) /\ idGen = "uuid1") =>
             Cardinality(ItemReportEvents(i)') =
                Cardinality(ItemReportEvents(i)) + 1]_vars

\* C35: the node in flight is the one of the most recent item start (only an
\* item start changes which item is in flight); a finish notification for
\* an id other than that of the node in flight raises AssertionError,
\* publishes nothing and leaves execute.nodes and the six sets unchanged, so
\* a finished event for item i is published only while i is in flight.
C35_FinishOnlyInFlight ==
    [][/\ \A i \in Items : LogStart(i) => current'.nodeid = i
       /\ current'.nodeid # current.nodeid => \E i \in Items : LogStart(i)
       /\ \A i \in Items :
             LogFinish(i) =>
                /\ (current # NoNode /\ current.nodeid # i) =>
                      /\ raised' = "AssertionError"
                      /\ UNCHANGED <<events, notified, calls, nextId>>
                      /\ UNCHANGED <<nodes, passed, failed, skipped, xfailed,
                                     xpassed, error>>
                /\ raised' = "none" => current.nodeid = i]_vars

\* C35 witness: a finish notification for another id than that of the node
\* in flight was refused, with events of the node in flight on the bus.
C35_Witness ==
    /\ raised = "AssertionError"
    /\ current # NoNode
    /\ ~stored
    /\ \E k \in 1..Len(events) : events[k].item_id = current.nodeid

RepublishSources ==
    {subscriptions[k].source :
        k \in {j \in 1..Len(subscriptions) : subscriptions[j].func = Republish}}

\* C32 as stated: with callbacks that publish under the source of their own
\* subscription only, no top-level publish runs into an unbounded chain of
\* nested publishes, however many such subscribers with distinct sources
\* there are.
C32_PublishTerminates == raised # "RecursionError"

\* C32 amended: a top-level publish runs into an unbounded chain of nested
\* publishes only when republishing callbacks are subscribed under two or
\* more distinct sources; with the republishing callbacks under one source
\* every top-level publish returns.
C32_TerminatesForOneSource ==
    raised = "RecursionError" => Cardinality(RepublishSources) >= 2

\* C32 witness: a republishing callback was invoked, the event it published
\* was delivered to another subscriber, and the top-level publish returned.
C32_Witness ==
    /\ raised = "none"
    /\ Cardinality(RepublishSources) = 1
    /\ \E a, b \in 1..Len(notified) :
          /\ a < b
          /\ notified[a].func = Republish
          /\ notified[b].event.source = subscriptions[notified[a].sub].source
          /\ notified[b].event # notified[a].event

\* the place of a stored event in the storage order
StoredAt(e) == CHOOSE k \in 1..Len(events) : events[k].id = e.id

\* C38: the events a subscriber is notified of reach it in storage order,
\* also when callbacks publish from inside their notification.
C38_NotifiedInStorageOrder ==
    \A a, b \in 1..Len(notified) :
        (a < b /\ notified[a].sub = notified[b].sub) =>
           StoredAt(notified[a].event) <= StoredAt(notified[b].event)

\* C38 amended: in a publish during which no callback publishes, every
\* invocation is made with the event that this publish stored, which stands
\* last in storage, behind the events of the publishes before it: each
\* subscriber gets the events in storage order.
C38_InOrderWithoutNested ==
    [][\A S \in NestedSources :
          (/\ PublishTop(EchoDraft(S))
           /\ \A a \in 1..Len(notified') : notified'[a].func # Republish) =>
             \A a \in 1..Len(notified') :
                /\ Len(events') > Len(events)
                /\ notified'[a].event = events'[Len(events')]]_vars

\* C38 witness: a second event was stored and delivered to two subscribers
\* whose callbacks do not publish.
C38_Witness ==
    /\ raised = "none"
    /\ Len(events) >= 2
    /\ Len(notified) >= 2
    /\ \A a \in 1..Len(notified) :
          /\ notified[a].func = "event_handler"
          /\ notified[a].event = events[Len(events)]

\* the invocations of subscription k with event e made by the last publish
InvokedWith(k, e) ==
    {a \in 1..Len(notified) : notified[a].sub = k /\ notified[a].event = e}

\* C39: an invoked callback that raises ends the publish with its exception;
\* the event it was invoked with is stored and is returned by get_with_id
\* and get_from_source, the subscriptions after the failing one were not
\* invoked with that event, and each subscription before it that is
\* eligible for the event was invoked with it once.
C39_RaisingCallback ==
    /\ (\E a \in 1..Len(notified) : notified[a].func = RaiseInCallback) =>
          /\ raised = "RuntimeError"
          /\ notified[Len(notified)].func = RaiseInCallback
    /\ raised = "RuntimeError" =>
          LET failing == notified[Len(notified)]
              e == failing.event
          IN /\ get_with_id(e.id) = <<e>>
             /\ \E k \in 1..Len(get_from_source(e.source)) :
                   get_from_source(e.source)[k] = e
             /\ \A k \in 1..Len(subscriptions) :
                   Cardinality(InvokedWith(k, e)) =
                      IF k < failing.sub /\ Eligible(subscriptions[k], e) THEN 1
                      ELSE IF k = failing.sub THEN 1
                      ELSE 0

\* C39 witness: the second of three subscriptions raised; the first was
\* invoked with the event and the third, eligible for it, was not.
C39_Witness ==
    /\ raised = "RuntimeError"
    /\ Len(subscriptions) = 3
    /\ notified[Len(notified)].sub = 2
    /\ InvokedWith(1, notified[Len(notified)].event) # {}
    /\ Eligible(subscriptions[3], notified[Len(notified)].event)
    /\ InvokedWith(3, notified[Len(notified)].event) = {}
=============================================================================
